---- MODULE Spec2Model ----
(***************************************************************************)
(* Model of src/src/index.js: the tic-tac-toe Game component (its state,   *)
(* handleClick, jumpTo, the status and move list computed by render) and   *)
(* the pure function calculateWinner.                                      *)
(*                                                                         *)
(* JavaScript arrays are 0-based; a board (squares) is a function on 0..8, *)
(* the history is a TLA+ sequence, so history[k] of the source is          *)
(* history[k + 1] here.  null is the string "null".                        *)
(***************************************************************************)
EXTENDS Integers, Sequences, FiniteSets, TLC

VARIABLES history, stepNumber, xIsNext, lastOp, squaresIn, winnerOut

vars == <<history, stepNumber, xIsNext, lastOp, squaresIn, winnerOut>>
gameVars == <<history, stepNumber, xIsNext>>

----------------------------------------------------------------------------
(* Bounds of the model *)

\* Largest number of accepted moves in one history under Spec.
MaxMoves == 5

\* Largest cell index on which an accepted move is explored under Spec.
MaxCell == 6

----------------------------------------------------------------------------
(* Data *)

null == "null"
Marks == {"X", "O"}
Values == Marks \cup {null}
Cells == 0 .. 8

\* Array(9).fill(null)
emptySquares == [c \in Cells |-> null]

\* const lines = [...] of calculateWinner
lines ==
    << <<0, 1, 2>>, <<3, 4, 5>>, <<6, 7, 8>>,
       <<0, 3, 6>>, <<1, 4, 7>>, <<2, 5, 8>>,
       <<0, 4, 8>>, <<2, 4, 6>> >>

\* lineMatches with the third cell of the triple left out of the comparison
lineMatchesTwo(ls, n, squares) ==
    /\ squares[ls[n][1]] # null
    /\ squares[ls[n][1]] = squares[ls[n][2]]

\* The test of the loop body for the triple at position n of the list ls:
\* squares[a] && squares[a] === squares[b] && squares[a] === squares[c]
lineMatches(ls, n, squares) ==
    /\ squares[ls[n][1]] # null
    /\ squares[ls[n][1]] = squares[ls[n][2]]
    /\ squares[ls[n][1]] = squares[ls[n][3]]

\* The for loop of calculateWinner from position n on, over the list ls.
RECURSIVE winnerFrom(_, _, _)
winnerFrom(ls, n, squares) ==
    IF n > Len(ls) THEN null
    ELSE IF lineMatches(ls, n, squares) THEN squares[ls[n][1]]
    ELSE winnerFrom(ls, n + 1, squares)

\* calculateWinner with the loop running from the last triple to the first
RECURSIVE winnerBackFrom(_, _, _)
winnerBackFrom(ls, n, squares) ==
    IF n < 1 THEN null
    ELSE IF lineMatches(ls, n, squares) THEN squares[ls[n][1]]
    ELSE winnerBackFrom(ls, n - 1, squares)

calculateWinnerLast(squares) == winnerBackFrom(lines, Len(lines), squares)

calculateWinner(squares) == winnerFrom(lines, 1, squares)

----------------------------------------------------------------------------
(* The Game component *)

\* slicedHistory without the slice: this.state.history as it is
wholeHistory == history

\* this.state.history.slice(0, this.state.stepNumber + 1)
slicedHistory == SubSeq(history, 1, stepNumber + 1)

\* currentSquares read from the last entry of this.state.history, not of
\* the slice
currentSquaresOfLast == history[Len(history)].squares

\* history[history.length - 1].squares of handleClick
currentSquares ==
    LET sliced == slicedHistory
        current == sliced[Len(sliced)]
    IN  current.squares

\* rejects without the test of the clicked cell
rejectsWonOnly(i) == calculateWinner(currentSquares) # null

\* rejects without the test for a winner
rejectsOccupiedOnly(i) == currentSquares[i] # null

\* the early return of handleClick: calculateWinner(squares) || squares[i]
rejects(i) == calculateWinner(currentSquares) # null \/ currentSquares[i] # null

\* the copy returned without the assignment squares[i] = ...
markedSquaresNone(i) == currentSquares

\* markedSquares with the mark not taken from xIsNext
markedSquaresX(i) == [currentSquares EXCEPT ![i] = "X"]

\* markedSquares with the two marks the wrong way round
markedSquaresSwapped(i) ==
    [currentSquares EXCEPT ![i] = IF xIsNext THEN "O" ELSE "X"]

\* squares[i] = this.state.xIsNext ? 'X' : 'O'
markedSquares(i) == [currentSquares EXCEPT ![i] = IF xIsNext THEN "X" ELSE "O"]

\* the state set with the step pointer left where it was
clickStateStuck(i) ==
    LET sliced  == slicedHistory
        squares == markedSquares(i)
    IN  [history    |-> sliced \o << [squares |-> squares] >>,
         stepNumber |-> stepNumber,
         xIsNext    |-> ~xIsNext]

\* clickState with stepNumber taken from this.state.history.length
clickStateOldLength(i) ==
    [history    |-> Append(slicedHistory, [squares |-> markedSquares(i)]),
     stepNumber |-> Len(history),
     xIsNext    |-> ~xIsNext]

\* clickState with the mark written into the squares array of the current
\* entry itself (no copy), so that entry and the new one share it
clickStateAliased(i) ==
    LET marked == [squares |-> markedSquares(i)]
        kept == [slicedHistory EXCEPT ![Len(slicedHistory)] = marked]
    IN  [history    |-> Append(kept, marked),
         stepNumber |-> Len(slicedHistory),
         xIsNext    |-> ~xIsNext]

\* the object passed to setState by handleClick
clickState(i) ==
    [history    |-> Append(slicedHistory, [squares |-> markedSquares(i)]),
     stepNumber |-> Len(slicedHistory),
     xIsNext    |-> ~xIsNext]

\* jumpState without xIsNext in the object passed to setState
jumpStateKeepsTurn(step) ==
    [history    |-> history,
     stepNumber |-> step,
     xIsNext    |-> xIsNext]

\* jumpState that also cuts the history at the step jumped to
jumpStateCuts(step) ==
    [history    |-> SubSeq(history, 1, step + 1),
     stepNumber |-> step,
     xIsNext    |-> (step % 2 = 0)]

\* the object passed to setState by jumpTo; history is not named in it
jumpState(step) ==
    [history    |-> history,
     stepNumber |-> step,
     xIsNext    |-> (step % 2 = 0)]

\* moveButtons with the steps counted from 1
moveButtonsFromOne ==
    [n \in 1 .. Len(history) |->
        LET move == n
        IN  [key  |-> move,
             desc |-> IF move # 0 THEN "Go to move # " \o ToString(move)
                      ELSE "Go to game start",
             step |-> move]]

\* render: const moves = history.map((step, move) => ...), one button per
\* entry, with its key, its text and the step its onClick passes to jumpTo
moveButtons ==
    [n \in 1 .. Len(history) |->
        LET move == n - 1
        IN  [key  |-> move,
             desc |-> IF move # 0 THEN "Go to move # " \o ToString(move)
                      ELSE "Go to game start",
             step |-> move]]

\* render: the steps bound to the buttons of the move list (history.map)
moves == {moveButtons[n].step : n \in 1 .. Len(moveButtons)}

\* status with a third text for a full board without winner
statusDraw ==
    LET current == history[stepNumber + 1]
        winner == calculateWinner(current.squares)
    IN  IF winner # null THEN "Winner: " \o winner
        ELSE IF \A c \in Cells : current.squares[c] # null THEN "Draw"
        ELSE "Next player: " \o (IF xIsNext THEN "X" ELSE "O")

\* status of the last history entry instead of the entry at stepNumber
statusOfLast ==
    LET current == history[Len(history)]
        winner == calculateWinner(current.squares)
    IN  IF winner # null THEN "Winner: " \o winner
        ELSE "Next player: " \o (IF xIsNext THEN "X" ELSE "O")

\* render: the status line, of the entry history[this.state.stepNumber]
status ==
    LET current == history[stepNumber + 1]
        winner == calculateWinner(current.squares)
    IN  IF winner # null THEN "Winner: " \o winner
        ELSE "Next player: " \o (IF xIsNext THEN "X" ELSE "O")

GameInit ==
    /\ history = << [squares |-> emptySquares] >>
    /\ stepNumber = 0
    /\ xIsNext = TRUE

\* handleClick(i): the early return leaves the state alone, otherwise setState
handleClick(i) ==
    IF rejects(i)
    THEN UNCHANGED gameVars
    ELSE LET state == clickState(i)
         IN  /\ stepNumber' = state.stepNumber
             /\ xIsNext' = state.xIsNext
             /\ history' = state.history

jumpTo(step) ==
    LET state == jumpState(step)
    IN  /\ stepNumber' = state.stepNumber
        /\ xIsNext' = state.xIsNext
        /\ history' = state.history

----------------------------------------------------------------------------
(* Spec: the game driven by the user, clicks on squares and on the buttons *)
(* of the move list in any order.  lastOp logs the handler that ran last:  *)
(* its name, whether a click moved the step pointer (every setState of     *)
(* handleClick does) and how many history entries its slice left out.      *)

\* A click that would be accepted is explored only on the cells 0..MaxCell
\* and only while fewer than MaxMoves moves lead to the displayed board; a
\* click that the early return rejects is explored on every cell.
explored(i) == (i <= MaxCell /\ stepNumber < MaxMoves) \/ rejects(i)

Click(i) ==
    /\ explored(i)
    /\ handleClick(i)
    /\ LET returned == stepNumber' = stepNumber
       IN  lastOp' = [op |-> "handleClick", accepted |-> ~returned,
                      dropped |-> IF returned THEN 0
                                  ELSE Len(history) - (stepNumber + 1)]
    /\ UNCHANGED <<squaresIn, winnerOut>>

Jump(step) ==
    /\ jumpTo(step)
    /\ lastOp' = [op |-> "jumpTo", accepted |-> TRUE, dropped |-> 0]
    /\ UNCHANGED <<squaresIn, winnerOut>>

Clicks == \E i \in Cells : Click(i)
Jumps == \E step \in moves : Jump(step)

noOp == [op |-> "none", accepted |-> TRUE, dropped |-> 0]

Init ==
    /\ GameInit
    /\ lastOp = noOp
    /\ squaresIn = emptySquares
    /\ winnerOut = "unset"

Next == Clicks \/ Jumps

Spec == Init /\ [][Next]_vars

----------------------------------------------------------------------------
(* SpecDeep: clicks and jumps in any order, to the end of the game.  The   *)
(* first moves of a game are explored on the cells of an opening only      *)
(* (a corner or the centre, the other of the two, the opposite corner);    *)
(* from then on every cell is.                                             *)

OpeningCells == << {0, 4}, {0, 4}, {8} >>

exploredDeep(i) ==
    IF stepNumber < Len(OpeningCells)
    THEN i \in OpeningCells[stepNumber + 1] \/ rejects(i)
    ELSE TRUE

DeepClick(i) ==
    /\ exploredDeep(i)
    /\ handleClick(i)
    /\ LET returned == stepNumber' = stepNumber
       IN  lastOp' = [op |-> "handleClick", accepted |-> ~returned,
                      dropped |-> IF returned THEN 0
                                  ELSE Len(history) - (stepNumber + 1)]
    /\ UNCHANGED <<squaresIn, winnerOut>>

DeepClicks == \E i \in Cells : DeepClick(i)

NextDeep == DeepClicks \/ Jumps

SpecDeep == Init /\ [][NextDeep]_vars

----------------------------------------------------------------------------
(* SpecFinish: a game brought to any state by clicks and jumps, and then   *)
(* played on by clicks alone.  lastOp.op = "play" marks the part played    *)
(* without jumps; once in it no jump is made.  Moves on empty cells keep   *)
(* being made as long as one is possible (weak fairness on accepted        *)
(* moves).  The first four moves of a game are explored on the cells of    *)
(* an opening only.                                                        *)

FinishOpening == << {0, 4}, {0, 4}, {8}, {2} >>

exploredFinish(i) ==
    IF stepNumber < Len(FinishOpening)
    THEN i \in FinishOpening[stepNumber + 1] \/ rejects(i)
    ELSE TRUE

playing == lastOp.op = "play"

\* the log of a click, under the name op
clickLog(op) ==
    LET returned == stepNumber' = stepNumber
    IN  [op |-> op, accepted |-> ~returned,
         dropped |-> IF returned THEN 0 ELSE Len(history) - (stepNumber + 1)]

SetupClick(i) ==
    /\ ~playing
    /\ exploredFinish(i)
    /\ handleClick(i)
    /\ lastOp' = clickLog("handleClick")
    /\ UNCHANGED <<squaresIn, winnerOut>>

SetupJump(step) ==
    /\ ~playing
    /\ Jump(step)

FinishClick(i) ==
    /\ exploredFinish(i)
    /\ handleClick(i)
    /\ lastOp' = clickLog("play")
    /\ UNCHANGED <<squaresIn, winnerOut>>

SetupClicks == \E i \in Cells : SetupClick(i)
SetupJumps == \E step \in moves : SetupJump(step)
FinishClicks == \E i \in Cells : FinishClick(i)

\* a click of the final part that the handler accepts
FinishMove == \E i \in Cells : FinishClick(i) /\ stepNumber' = stepNumber + 1

NextFinish == SetupClicks \/ SetupJumps \/ FinishClicks

SpecFinish == Init /\ [][NextFinish]_vars /\ WF_vars(FinishMove)

----------------------------------------------------------------------------
(* SpecPlay: every game played without time travel, on all nine cells and  *)
(* to its end.  Nothing is bounded; lastOp is not kept.                    *)

Play(i) ==
    /\ handleClick(i)
    /\ UNCHANGED <<lastOp, squaresIn, winnerOut>>

NextPlay == \E i \in Cells : Play(i)

SpecPlay == Init /\ [][NextPlay]_vars

----------------------------------------------------------------------------
(* SpecWin: calculateWinner applied to each of the 3^9 boards.             *)

Boards == [Cells -> Values]

InitWin ==
    /\ GameInit
    /\ lastOp = noOp
    /\ squaresIn \in Boards
    /\ winnerOut = "unset"

Calculate ==
    /\ winnerOut = "unset"
    /\ winnerOut' = calculateWinner(squaresIn)
    /\ UNCHANGED <<gameVars, lastOp, squaresIn>>

NextWin == Calculate

SpecWin == InitWin /\ [][NextWin]_vars

----------------------------------------------------------------------------
(* Notions the claims are stated in *)

\* the board displayed, history[stepNumber].squares of render
shown == history[stepNumber + 1].squares

\* the mark of the player to move by the parity of the step pointer
markAt(p) == IF p % 2 = 0 THEN "X" ELSE "O"

\* the eight triples in the order the specification lists them
Triples ==
    << <<0, 1, 2>>, <<3, 4, 5>>, <<6, 7, 8>>,
       <<0, 3, 6>>, <<1, 4, 7>>, <<2, 5, 8>>,
       <<0, 4, 8>>, <<2, 4, 6>> >>

\* the positions in Triples of the triples of b whose three cells hold the
\* same mark
matched(b) ==
    {n \in 1 .. Len(Triples) :
        /\ b[Triples[n][1]] \in Marks
        /\ b[Triples[n][2]] = b[Triples[n][1]]
        /\ b[Triples[n][3]] = b[Triples[n][1]]}

\* the marks that hold a whole triple of b
winners(b) == {b[Triples[n][1]] : n \in matched(b)}

\* the reference: the mark of the first matched triple, none without one
firstMatch(b) ==
    IF matched(b) = {} THEN null
    ELSE LET first == CHOOSE n \in matched(b) : \A m \in matched(b) : n <= m
         IN  b[Triples[first][1]]

\* the board after the first n clicks of the cell sequence ms, X moving first
boardAfter(ms, n) ==
    [c \in Cells |->
        IF \E k \in 1 .. n : ms[k] = c
        THEN markAt((CHOOSE k \in 1 .. n : ms[k] = c) - 1)
        ELSE null]

\* the history of a game in which the cells of ms were clicked in turn
historyAfter(ms) == [n \in 1 .. Len(ms) + 1 |-> [squares |-> boardAfter(ms, n - 1)]]

byClick == lastOp.op = "handleClick"
byJump == lastOp.op = "jumpTo"

----------------------------------------------------------------------------
\* C1: the stored flag xIsNext is true exactly when stepNumber is even, in
\* every state reached by clicks and jumps.
C1_TurnParity == xIsNext <=> (stepNumber % 2 = 0)

\* reached: an odd step displayed by a jump, after moves were made
C1_Witness ==
    /\ byJump
    /\ stepNumber % 2 = 1
    /\ stepNumber < Len(history) - 1
    /\ ~xIsNext

\* C2: the step pointer always indexes an existing history entry.
C2_StepInRange == 0 <= stepNumber /\ stepNumber < Len(history)

\* reached: a move accepted after a jump back, the pointer on the new last
\* entry of the truncated history
C2_Witness ==
    /\ byClick /\ lastOp.accepted /\ lastOp.dropped >= 1
    /\ stepNumber = Len(history) - 1

\* C3: a click on any cell while the displayed board has a winner, or on an
\* occupied cell of it, changes neither history nor stepNumber nor xIsNext
\* (entries beyond the step pointer included).  Stated by contraposition: a
\* step that changes any of the three is not such a click.
C3_RejectedIsNoOp ==
    [][~UNCHANGED gameVars =>
          LET won == winners(shown) # {}
          IN  \A i \in Cells : (won \/ shown[i] # null) => ~Click(i)]_vars

\* reached: a rejected click on an occupied cell with later entries in the
\* history
C3_Witness ==
    /\ byClick /\ ~lastOp.accepted
    /\ stepNumber >= 1
    /\ stepNumber < Len(history) - 1

\* reached: a rejected click on a board that has a winner
C3_WitnessWon ==
    /\ byClick /\ ~lastOp.accepted
    /\ calculateWinner(shown) # null

\* C4: an accepted move made while the step pointer k is below the last
\* index of a history of length L leaves a history of length k + 2 whose
\* entries 0..k are the old ones; the old entries k+1..L-1 are gone: index
\* k+1 holds the new board and no old entry from k+2 on occurs any more.
C4_Truncation ==
    [][(lastOp'.op = "handleClick" /\ stepNumber < Len(history) - 1
            /\ winners(shown) = {})
          => \A i \in Cells : (shown[i] = null /\ Click(i)) =>
                /\ Len(history') = stepNumber + 2
                /\ \A j \in 1 .. stepNumber + 1 : history'[j] = history[j]
                /\ history'[stepNumber + 2].squares[i] # null
                /\ \A j \in stepNumber + 3 .. Len(history) :
                      \A m \in 1 .. Len(history') : history'[m] # history[j]]_vars

\* reached: three moves, a jump to step 1, one new move: the history has
\* three entries, two old entries were dropped
C4_Witness ==
    /\ byClick /\ lastOp.accepted /\ lastOp.dropped = 2
    /\ Len(history) = 3
    /\ stepNumber = 2

\* C5: jumpTo(step), for a step of the move list, leaves the history as it
\* is, sets stepNumber to step and xIsNext to "step is even".
C5_JumpFrame ==
    [][lastOp'.op = "jumpTo"
          => \A step \in moves : Jump(step) =>
                /\ history' = history
                /\ stepNumber' = step
                /\ xIsNext' = (step % 2 = 0)]_vars

\* reached: a jump back from a history of four entries, all four kept
C5_Witness ==
    /\ byJump
    /\ Len(history) = 4
    /\ stepNumber = 1

\* C6: a click on an empty cell i of a board without winner shown at step p
\* leaves a history of length p + 2 whose last entry is that board with the
\* mark of p's parity in cell i, and the step pointer on it, p + 1.
C6_AcceptedMove ==
    [][(lastOp'.op = "handleClick" /\ winners(shown) = {})
          => \A i \in Cells : (shown[i] = null /\ Click(i)) =>
                /\ Len(history') = stepNumber + 2
                /\ history'[Len(history')].squares
                      = [shown EXCEPT ![i] = markAt(stepNumber)]
                /\ stepNumber' = stepNumber + 1]_vars

\* reached: an accepted move of O, the pointer on the appended entry
C6_Witness ==
    /\ byClick /\ lastOp.accepted
    /\ stepNumber = 4
    /\ stepNumber = Len(history) - 1
    /\ \E c \in Cells : history[5].squares[c] = "O" /\ history[4].squares[c] = null

\* C7: on each of the 3^9 boards calculateWinner returns the mark of the
\* first triple, in the listed order, whose cells hold one mark, and none
\* exactly when no triple does.
C7_FirstMatch ==
    winnerOut # "unset" =>
        /\ winnerOut = firstMatch(squaresIn)
        /\ (winnerOut = null <=> matched(squaresIn) = {})

\* reached: a board on which X and O each hold a triple and the result is
\* the mark of the earlier one; and a full board without triple
C7_Witness ==
    /\ winnerOut = "O"
    /\ winners(squaresIn) = {"X", "O"}
    /\ matched(squaresIn) = {1, 3}

C7_WitnessDraw ==
    /\ winnerOut = null
    /\ \A c \in Cells : squaresIn[c] # null

\* C8: no board of the history holds both a whole X triple and a whole O
\* triple: every matched triple of it holds the mark calculateWinner returns,
\* so the order in which the triples are checked does not change the result.
C8_OneWinner ==
    \A k \in 1 .. Len(history) :
        LET b == history[k].squares
            m == matched(b)
            w == calculateWinner(b)
        IN  \A n \in m : b[Triples[n][1]] = w

\* reached: a board of the history on which two triples are matched, and one
\* won by O
C8_Witness ==
    /\ Cardinality(matched(history[Len(history)].squares)) = 2
    /\ calculateWinner(history[Len(history)].squares) = "X"

C8_WitnessO == calculateWinner(history[Len(history)].squares) = "O"

\* C9: calculateWinner of the board [X,O,X,X,O,_,O,_,X] is O (column 1).
Scenario3 ==
    [c \in Cells |-> << "X", "O", "X", "X", "O", null, "O", null, "X" >>[c + 1]]

C9_Scenario3 ==
    (squaresIn = Scenario3 /\ winnerOut # "unset") => winnerOut = "O"

\* C9 as amended: calculateWinner of that board is none; its column 1 holds
\* O, O and nothing (the third O is in cell 6), and no triple is matched.
C9_Scenario3None ==
    (squaresIn = Scenario3 /\ winnerOut # "unset") =>
        /\ winnerOut = null
        /\ Scenario3[1] = "O" /\ Scenario3[4] = "O" /\ Scenario3[7] = null

C9_Witness == squaresIn = Scenario3 /\ winnerOut = null

\* C10: the status is "Winner: w" exactly when w wins the board shown, and
\* otherwise names the next player by the parity of the step pointer; after
\* the moves 0,1,3,4,6 of a fresh game it is "Winner: X" and handleClick
\* returns early for every cell.
Scenario5 == historyAfter(<< 0, 1, 3, 4, 6 >>)

C10_Status ==
    /\ LET w == firstMatch(shown)
       IN  status = IF w # null THEN "Winner: " \o w
                    ELSE "Next player: " \o markAt(stepNumber)
    /\ (history = Scenario5 /\ stepNumber = 5) =>
          /\ status = "Winner: X"
          /\ \A i \in Cells : rejects(i)

\* reached: the five moves of the scenario and a sixth click, rejected
C10_Witness ==
    /\ history = Scenario5
    /\ stepNumber = 5
    /\ byClick /\ ~lastOp.accepted
    /\ status = "Winner: X"

\* reached: an earlier step of a won game shown, where O is to move
C10_WitnessBack ==
    /\ byJump
    /\ calculateWinner(history[Len(history)].squares) = "X"
    /\ status = "Next player: O"

\* C11: the steps bound to the buttons of the move list are exactly
\* 0 .. length(history) - 1, one button per entry, the first labelled as the
\* game start and button i > 0 as move i; a jump made through them leaves
\* the step pointer in that range.
C11_MoveList ==
    /\ Len(moveButtons) = Len(history)
    /\ moves = 0 .. Len(history) - 1
    /\ \A n \in 1 .. Len(moveButtons) :
          /\ moveButtons[n].step = n - 1
          /\ moveButtons[n].desc = "Go to game start" <=> n = 1
          /\ n > 1 => moveButtons[n].desc = "Go to move # " \o ToString(n - 1)
    /\ byJump => stepNumber \in 0 .. Len(history) - 1

\* reached: a jump through the last of ten buttons
C11_Witness ==
    /\ byJump
    /\ Len(moveButtons) = 10
    /\ stepNumber = 9
    /\ moveButtons[10].desc = "Go to move # 9"

\* C12: a stored entry is never changed: every step leaves each entry that
\* stays in the history as it was, the only new content being the entry an
\* accepted click appends at index p + 1; such a click leaves the entries
\* 0..p, the cloned board at p included, as they were.
C12_EntriesImmutable ==
    [][/\ \A j \in 1 .. Len(history') :
             j <= Len(history) =>
                \/ history'[j] = history[j]
                \/ /\ lastOp'.op = "handleClick"
                   /\ j = stepNumber + 2
                   /\ j = Len(history')
       /\ (lastOp'.op = "handleClick" /\ ~UNCHANGED gameVars) =>
             /\ Len(history') = stepNumber + 2
             /\ \A j \in 1 .. stepNumber + 1 : history'[j] = history[j]]_vars

\* reached: the ninth move of a game, appended after a jump back that
\* dropped an entry
C12_Witness ==
    /\ byClick /\ lastOp.accepted /\ lastOp.dropped = 1
    /\ Len(history) = 10

\* the board b has no empty cell
full(b) == \A c \in Cells : b[c] # null

\* C13: when the board shown is full and no triple of it is matched, the
\* step pointer is 9, the status is "Next player: O" (no draw text, no
\* winner text) and handleClick returns early for every cell.
C13_DrawNotSignalled ==
    (full(shown) /\ matched(shown) = {}) =>
        /\ stepNumber = 9
        /\ status = "Next player: O"
        /\ \A i \in Cells : rejects(i)

\* reached: a click on a drawn board, rejected
C13_Witness ==
    /\ full(shown) /\ matched(shown) = {}
    /\ byClick /\ ~lastOp.accepted
    /\ status = "Next player: O"

\* the number of cells of b that hold the mark v
count(b, v) == Cardinality({c \in Cells : b[c] = v})

\* C14: entry 0 of the history is the empty board and each later entry i
\* differs from entry i - 1 in exactly one cell, empty before and holding X
\* when i is odd, O when i is even; so entry i holds ceil(i/2) X and
\* floor(i/2) O.
C14_HistoryShape ==
    /\ history[1].squares = [c \in Cells |-> null]
    /\ \A n \in 2 .. Len(history) :
          LET i == n - 1
              before == history[n - 1].squares
              after == history[n].squares
              changed == {c \in Cells : after[c] # before[c]}
          IN  /\ Cardinality(changed) = 1
              /\ \A c \in changed :
                    /\ before[c] = null
                    /\ after[c] = IF i % 2 = 1 THEN "X" ELSE "O"
              /\ count(after, "X") = (i + 1) \div 2
              /\ count(after, "O") = i \div 2

\* reached: the eighth move of a game, made after a jump back from a full
\* board
C14_Witness ==
    /\ Len(history) = 9
    /\ byClick /\ lastOp.accepted /\ lastOp.dropped = 2
    /\ count(history[9].squares, "X") = 4
    /\ count(history[9].squares, "O") = 4

\* C15: calculateWinner returns none for every history entry before the
\* last one, after a truncation as well.
C15_OnlyLastWon ==
    \A n \in 1 .. Len(history) - 1 : calculateWinner(history[n].squares) = null

\* reached: a won board appended after a jump back that dropped entries
C15_Witness ==
    /\ byClick /\ lastOp.accepted /\ lastOp.dropped >= 1
    /\ matched(history[Len(history)].squares) # {}
    /\ Len(history) >= 7

\* C16: a history entry won by X has an odd index and one won by O an even
\* index; when the status is "Winner: X" xIsNext is false and when it is
\* "Winner: O" xIsNext is true.
C16_WinnerJustMoved ==
    /\ \A n \in 1 .. Len(history) :
          LET i == n - 1
              w == calculateWinner(history[n].squares)
          IN  /\ w = "X" => i % 2 = 1
              /\ w = "O" => i % 2 = 0
    /\ status = "Winner: X" => ~xIsNext
    /\ status = "Winner: O" => xIsNext

\* reached: the win of O shown again by a jump to the last entry
C16_Witness ==
    /\ byJump
    /\ status = "Winner: O"
    /\ xIsNext
    /\ stepNumber = Len(history) - 1

\* the last entry of the history
lastEntry == history[Len(history)]

\* C17: a won game can be left by time travel.  From a state that shows a
\* won board, jumpTo(k) with k < length(history) - 1 shows a board without
\* winner, with a "Next player" status; a click on an empty cell of it is then
\* accepted and leaves a history of k + 2 entries, in which the won board is
\* gone (unless k is the step before it and the same cell is clicked again).
\* There is such a k in every won state: for every k <= 3 the status after
\* the click is "Next player" again, whatever the cell.
C17_WonNotAbsorbing ==
    [][/\ (lastOp'.op = "jumpTo" /\ matched(shown) # {}
              /\ stepNumber' < Len(history) - 1) =>
             /\ 0 \in moves /\ 0 < Len(history) - 1
             /\ history' = history
             /\ status' = "Next player: " \o markAt(stepNumber')
       /\ (lastOp'.op = "handleClick" /\ matched(lastEntry.squares) # {}
              /\ stepNumber < Len(history) - 1) =>
             \A i \in Cells : (shown[i] = null /\ DeepClick(i)) =>
                /\ stepNumber' = stepNumber + 1
                /\ Len(history') = stepNumber + 2
                /\ \A m \in 1 .. Len(history') :
                      history'[m] = lastEntry =>
                         (m = Len(history) /\ stepNumber = Len(history) - 2)
                /\ stepNumber <= 3 =>
                      /\ status' = "Next player: " \o markAt(stepNumber + 1)
                      /\ \A m \in 1 .. Len(history') : history'[m] # lastEntry]_vars

\* reached: a jump back to step 2 from a game that O has won
C17_Witness ==
    /\ byJump
    /\ calculateWinner(lastEntry.squares) = "O"
    /\ stepNumber = 2
    /\ status = "Next player: X"

\* reached: a move accepted on top of step 2 after such a jump, the status
\* back to the next player
C17_WitnessMove ==
    /\ byClick /\ lastOp.accepted /\ lastOp.dropped >= 4
    /\ stepNumber = 3
    /\ status = "Next player: O"

\* C18: the history is bounded.  In every state reached by clicks and jumps,
\* in any interleaving, 1 <= length(history) <= 10 and stepNumber <= 9.
C18_HistoryBounded ==
    /\ 1 <= Len(history)
    /\ Len(history) <= 10
    /\ stepNumber <= 9

\* reached: a history rebuilt to its full ten entries by a move made after
\* a jump back, the pointer on the last of them
C18_Witness ==
    /\ byClick /\ lastOp.accepted /\ lastOp.dropped >= 1
    /\ Len(history) = 10
    /\ stepNumber = 9

\* the game is over on the board shown: it is won or full, and every click
\* returns early
finished ==
    /\ matched(shown) # {} \/ full(shown)
    /\ \A i \in Cells : rejects(i)

\* C19: play terminates when no jump is used.  In a run of handleClick calls
\* alone, from any reachable state, each call either changes nothing or is an
\* accepted move that raises the step pointer by exactly one, to at most 9:
\* from pointer p there are at most 9 - p accepted moves.  If moves on empty
\* cells keep being made, the game reaches a state whose board is won or
\* full and in which every click is a no-op, and it stays there.
C19_PlayTerminates ==
    /\ [][lastOp'.op = "play" =>
             /\ \/ UNCHANGED gameVars
                \/ /\ stepNumber' = stepNumber + 1
                   /\ stepNumber' <= 9
                   /\ count(shown', null) = count(shown, null) - 1
             /\ finished => UNCHANGED gameVars]_vars
    /\ playing ~> (playing /\ finished)
    /\ [][(playing /\ finished) => (playing /\ finished)']_vars

\* reached: a game won in the part played without jumps, before the board
\* is full, a further click refused
C19_Witness ==
    /\ playing /\ ~lastOp.accepted
    /\ finished
    /\ matched(shown) # {}
    /\ stepNumber < 9

\* reached: a game played to a full board without winner, a further click
\* refused
C19_WitnessFull ==
    /\ playing /\ ~lastOp.accepted
    /\ finished
    /\ full(shown) /\ matched(shown) = {}
    /\ stepNumber = 9

====
